---- MODULE Spec2Model ----
(***************************************************************************)
(* Forex Trading Assistant (src/server/main.py): the four tools            *)
(* save_trade, log_trade_result, get_trade_insights and check_risk_alerts  *)
(* over the SQLite ledger (trade_tracker, trade_results, risk_monitor,     *)
(* users).                                                                 *)
(*                                                                         *)
(* Numbers.  Prices and balances are integers.  A lot size is counted in   *)
(* hundredths of a lot, so the code's factor (lot_size * 100) is the       *)
(* stored integer and profit/loss = price move * lot_size is exact.        *)
(* Python's None is the value None below; the code tests optional values   *)
(* by truthiness, so None, 0 and "" all count as absent (Truthy).          *)
(*                                                                         *)
(* Concurrency.  Each tool call runs on its own connection.  A call is a   *)
(* process p; its steps are the committed effects of its awaits.  An       *)
(* INSERT/UPDATE together with the conn.commit() that follows it is one    *)
(* step: until the commit no other connection sees the write.              *)
(*                                                                         *)
(* Time.  The clock now counts half hours; a row's timestamp column takes  *)
(* the clock's value when the row is inserted.                             *)
(***************************************************************************)
EXTENDS Integers, Sequences, FiniteSets, TLC

\* ---------------------------------------------------------------- bounds
MaxTrades == 2
MaxResults == 3
NumProcs == 2
MaxTime == 3

\* ----------------------------------------------------- values and inputs
None == -1
NoneStr == "None"

Procs == 1..NumProcs
Users == {"u1", "u2"}
Sides == {"BUY", "SELL"}
Outcomes == {"WIN", "LOSS"}
Pairs == {"XAU/USD"}
TradeIds == 1..(MaxTrades + 1)

Truthy(x) == x # None /\ x # 0
TruthyStr(s) == s # NoneStr /\ s # ""

Abs(x) == IF x < 0 THEN -x ELSE x

\* The arguments of one save_trade call.
TradeArgs(users, entries, tps, sls, lots, balances, sides, tfs, strats) ==
    [user_id : users, entry_price : entries, take_profit : tps,
     stop_loss : sls, lot_size : lots, balance : balances,
     trade_type : sides, currency_pair : Pairs, timeframe : tfs,
     strategy : strats]

\* Inputs of the concurrent specification: valid trades that may lack the
\* stop-loss.
ArgsConc == TradeArgs(Users, {10}, {12}, {None, 8}, {1}, {100},
                      {"BUY"}, {NoneStr}, {NoneStr})

\* Inputs of the sequential specification: valid and invalid lot sizes,
\* trades that may lack either target.
ArgsSeq == TradeArgs(Users, {10}, {None, 12}, {None, 8}, {-1, 0, 1}, {100},
                     {"BUY"}, {NoneStr}, {NoneStr})

\* Inputs of the profit/loss specification: both sides, targets on either
\* side of the entry price, two lot sizes.
ArgsPL == TradeArgs({"u1"}, {10}, {None, 8, 12}, {None, 8, 12}, {1, 2},
                    {100}, Sides, {NoneStr}, {NoneStr})

\* Inputs of the analytics specification: both users, both sides with the
\* targets on the profitable side, two timeframes, one strategy.
ArgsInsights ==
    TradeArgs(Users, {10}, {12}, {8}, {1}, {100}, {"BUY"},
              {"1h", "4h"}, {NoneStr, "smc"})
    \cup TradeArgs(Users, {10}, {8}, {12}, {1}, {100}, {"SELL"},
                   {"1h", "4h"}, {NoneStr, "smc"})

\* ------------------------------------------------------------------ state
VARIABLES
    users,      \* users table: the set of user_id
    trades,     \* trade_tracker: sequence of rows, id = position
    results,    \* trade_results: sequence of rows, id = position
    alerts,     \* risk_monitor: sequence of rows
    calls,      \* per process: the position of its call and its locals
    resp,       \* the payload of the call that returned last
    now         \* the clock the timestamp columns are filled from

vars == <<users, trades, results, alerts, calls, resp, now>>

\* The clock counts half hours.
TicksPerHour == 2

\* The timestamp column of trade_tracker and trade_results (read at lines
\* 585-586) is filled in by the database when the row is inserted.
Stamped(row) == row @@ [timestamp |-> now]

Idle == [pc |-> "idle", user_id |-> "", trade_id |-> 0, result |-> "",
         profit_loss |-> 0, balance |-> 0]

NoResp == [op |-> "none", kind |-> "none"]

Init ==
    /\ users = {}
    /\ trades = <<>>
    /\ results = <<>>
    /\ alerts = <<>>
    /\ calls = [p \in Procs |-> Idle]
    /\ resp = NoResp
    /\ now = 0

\* ------------------------------------------------------------- save_trade
\* Round-half-even of n/d to an integer (d > 0, n >= 0): f"{ratio:.2f}" on
\* the quotient scaled by 100.
RoundDiv(n, d) ==
    LET q == n \div d
        r == n % d
    IN  IF 2 * r < d THEN q
        ELSE IF 2 * r > d THEN q + 1
        ELSE IF q % 2 = 0 THEN q ELSE q + 1

\* risk_reward_ratio of save_trade: the X of the stored text "1:X.XX" in
\* hundredths, or None.
RiskRewardRatio(a) ==
    IF Truthy(a.take_profit) /\ Truthy(a.stop_loss) /\ Truthy(a.entry_price)
    THEN LET profit_distance == IF a.trade_type = "BUY"
                                    THEN Abs(a.take_profit - a.entry_price)
                                    ELSE Abs(a.entry_price - a.take_profit)
             risk_distance == IF a.trade_type = "BUY"
                              THEN Abs(a.entry_price - a.stop_loss)
                              ELSE Abs(a.stop_loss - a.entry_price)
         IN  IF risk_distance > 0
             THEN RoundDiv(profit_distance * 100, risk_distance)
             ELSE None
    ELSE None

\* Mutant: the row is stored with the status of a finished trade.
TradeRowStoredClosed(a) ==
    [user_id |-> a.user_id, entry_price |-> a.entry_price,
     take_profit |-> a.take_profit, stop_loss |-> a.stop_loss,
     lot_size |-> a.lot_size, balance |-> a.balance,
     trade_type |-> a.trade_type, currency_pair |-> a.currency_pair,
     timeframe |-> a.timeframe, strategy |-> a.strategy,
     risk_reward_ratio |-> RiskRewardRatio(a), status |-> "CLOSED"]

\* The row INSERT INTO trade_tracker stores; status takes the column's
\* default, OPEN.
TradeRow(a) ==
    [user_id |-> a.user_id, entry_price |-> a.entry_price,
     take_profit |-> a.take_profit, stop_loss |-> a.stop_loss,
     lot_size |-> a.lot_size, balance |-> a.balance,
     trade_type |-> a.trade_type, currency_pair |-> a.currency_pair,
     timeframe |-> a.timeframe, strategy |-> a.strategy,
     risk_reward_ratio |-> RiskRewardRatio(a), status |-> "OPEN"]

\* Mutant: only a negative lot size is refused.
LotSizeNegative(lot_size) == lot_size < 0

\* Line 73: if lot_size <= 0.
LotSizeInvalid(lot_size) == lot_size <= 0

\* One call of save_trade by process p with arguments a.  The two INSERTs
\* are committed by the single conn.commit() of line 109.
save_trade(p, a) ==
    /\ calls[p].pc = "idle"
    /\ IF LotSizeInvalid(a.lot_size)
       THEN /\ resp' = [op |-> "save_trade", kind |-> "error", proc |-> p,
                        lot_size |-> a.lot_size]
            /\ UNCHANGED <<users, trades>>
       ELSE /\ Len(trades) < MaxTrades
            /\ users' = users \cup {a.user_id}
            /\ trades' = Append(trades, Stamped(TradeRow(a)))
            /\ resp' = [op |-> "save_trade", kind |-> "ok", proc |-> p,
                        trade_id |-> Len(trades) + 1, status |-> "OPEN",
                        risk_reward_ratio |-> RiskRewardRatio(a)]
    /\ UNCHANGED <<results, alerts, calls, now>>

\* ------------------------------------------------------- log_trade_result
\* Mutant: a WIN is computed whenever the stop-loss is set.
ProfitLossWinNeedsStop(t, result) ==
    IF result = "WIN"
    THEN IF Truthy(t.stop_loss)
         THEN LET price_move == IF t.trade_type = "BUY"
                                THEN t.take_profit - t.entry_price
                                ELSE t.entry_price - t.take_profit
              IN  [ok |-> TRUE, value |-> price_move * t.lot_size]
         ELSE [ok |-> FALSE, value |-> 0]
    ELSE IF Truthy(t.stop_loss)
         THEN LET price_move == IF t.trade_type = "BUY"
                                THEN t.entry_price - t.stop_loss
                                ELSE t.stop_loss - t.entry_price
              IN  [ok |-> TRUE, value |-> -Abs(price_move * t.lot_size)]
         ELSE [ok |-> FALSE, value |-> 0]

\* profit_loss of lines 195-226; ok is FALSE when the target the result
\* needs is absent and the call returns the error payload.
ProfitLoss(t, result) ==
    IF result = "WIN"
    THEN IF Truthy(t.take_profit)
         THEN LET price_move == IF t.trade_type = "BUY"
                                THEN t.take_profit - t.entry_price
                                ELSE t.entry_price - t.take_profit
              IN  [ok |-> TRUE, value |-> price_move * t.lot_size]
         ELSE [ok |-> FALSE, value |-> 0]
    ELSE IF Truthy(t.stop_loss)
         THEN LET price_move == IF t.trade_type = "BUY"
                                THEN t.entry_price - t.stop_loss
                                ELSE t.stop_loss - t.entry_price
              IN  [ok |-> TRUE, value |-> -Abs(price_move * t.lot_size)]
         ELSE [ok |-> FALSE, value |-> 0]

\* Mutant: the trade is looked up by id alone.
TradeFoundAnyOwner(user_id, trade_id) ==
    trade_id \in DOMAIN trades

\* SELECT ... FROM trade_tracker WHERE id = ? AND user_id = ?
TradeFound(user_id, trade_id) ==
    /\ trade_id \in DOMAIN trades
    /\ trades[trade_id].user_id = user_id

\* Mutant: the status is not looked at.
NeverClosed(status) == FALSE

\* Line 188: if status == "CLOSED".
AlreadyClosed(status) == status = "CLOSED"

\* The calls that have passed their checks and not yet inserted.
Inserting == {q \in Procs : calls[q].pc = "insert"}

\* Lines 169-226: the read of the trade and the checks made on it.  The
\* call returns early (not found, already closed, missing target) or goes
\* on to the insert with profit_loss and balance as locals.
log_trade_result_select(p, user_id, trade_id, result) ==
    /\ calls[p].pc = "idle"
    /\ IF ~TradeFound(user_id, trade_id)
       THEN /\ resp' = [op |-> "log_trade_result", kind |-> "not_found",
                        proc |-> p, user_id |-> user_id,
                        trade_id |-> trade_id]
            /\ UNCHANGED calls
       ELSE IF AlreadyClosed(trades[trade_id].status)
       THEN /\ resp' = [op |-> "log_trade_result", kind |-> "already_closed",
                        proc |-> p, user_id |-> user_id,
                        trade_id |-> trade_id]
            /\ UNCHANGED calls
       ELSE IF ~ProfitLoss(trades[trade_id], result).ok
       THEN /\ resp' = [op |-> "log_trade_result", kind |-> "error",
                        proc |-> p, user_id |-> user_id,
                        trade_id |-> trade_id, result |-> result]
            /\ UNCHANGED calls
       ELSE /\ Len(results) + Cardinality(Inserting) < MaxResults
            /\ calls' = [calls EXCEPT ![p] =
                  [pc |-> "insert", user_id |-> user_id,
                   trade_id |-> trade_id, result |-> result,
                   profit_loss |-> ProfitLoss(trades[trade_id], result).value,
                   balance |-> trades[trade_id].balance]]
            /\ UNCHANGED resp
    /\ UNCHANGED <<users, trades, results, alerts, now>>

\* Lines 228-237: INSERT INTO trade_results, committed on its own.
log_trade_result_insert(p) ==
    /\ calls[p].pc = "insert"
    /\ results' = Append(results, Stamped(
          [user_id |-> calls[p].user_id, trade_id |-> calls[p].trade_id,
           result |-> calls[p].result, profit_loss |-> calls[p].profit_loss]))
    /\ calls' = [calls EXCEPT ![p].pc = "update"]
    /\ UNCHANGED <<users, trades, alerts, resp, now>>

\* Mutant: the new balance is written back onto the trade.
log_trade_result_update_balance(p) ==
    /\ calls[p].pc = "update"
    /\ trades' = [trades EXCEPT
                    ![calls[p].trade_id].status = "CLOSED",
                    ![calls[p].trade_id].balance =
                        calls[p].balance + calls[p].profit_loss]
    /\ resp' = [op |-> "log_trade_result", kind |-> "ok", proc |-> p,
                user_id |-> calls[p].user_id, trade_id |-> calls[p].trade_id,
                result |-> calls[p].result,
                profit_loss |-> calls[p].profit_loss,
                new_balance |-> calls[p].balance + calls[p].profit_loss,
                status |-> "CLOSED"]
    /\ calls' = [calls EXCEPT ![p] = Idle]
    /\ UNCHANGED <<users, results, alerts, now>>

\* Lines 239-262: UPDATE trade_tracker SET status = 'CLOSED' WHERE id = ?,
\* the second commit, and the success payload.
log_trade_result_update(p) ==
    /\ calls[p].pc = "update"
    /\ trades' = [trades EXCEPT ![calls[p].trade_id].status = "CLOSED"]
    /\ resp' = [op |-> "log_trade_result", kind |-> "ok", proc |-> p,
                user_id |-> calls[p].user_id, trade_id |-> calls[p].trade_id,
                result |-> calls[p].result,
                profit_loss |-> calls[p].profit_loss,
                new_balance |-> calls[p].balance + calls[p].profit_loss,
                status |-> "CLOSED"]
    /\ calls' = [calls EXCEPT ![p] = Idle]
    /\ UNCHANGED <<users, results, alerts, now>>

\* A call that has passed its checks ends before its next statement runs:
\* the await raises (aiosqlite.OperationalError, e.g. a locked or read-only
\* database) or the server process stops.  Nothing is rolled back, because
\* what was written was already committed.
log_trade_result_fail(p) ==
    /\ calls[p].pc \in {"insert", "update"}
    /\ resp' = [op |-> "log_trade_result", kind |-> "exception", proc |-> p,
                user_id |-> calls[p].user_id, trade_id |-> calls[p].trade_id]
    /\ calls' = [calls EXCEPT ![p] = Idle]
    /\ UNCHANGED <<users, trades, results, alerts, now>>

\* ----------------------------------------------------- get_trade_insights
RECURSIVE SumF(_, _)
SumF(f, S) ==
    IF S = {} THEN 0
    ELSE LET x == CHOOSE y \in S : TRUE
         IN  f[x] + SumF(f, S \ {x})

RECURSIVE Gcd(_, _)
Gcd(a, b) == IF b = 0 THEN a ELSE Gcd(b, a % b)

\* The rational n/d in lowest terms; d = 0 is SQL NULL / Python None.
Frac(n, d) ==
    IF d = 0 THEN [num |-> 0, den |-> 0]
    ELSE LET g == Gcd(Abs(n), d)
         IN  [num |-> n \div g, den |-> d \div g]

\* round(x, 2) of x = n/d (d > 0), in hundredths.
Round2(n, d) ==
    IF n >= 0 THEN RoundDiv(n * 100, d) ELSE -RoundDiv((-n) * 100, d)

\* The equality filters of lines 297-310; an absent filter passes all rows.
PassPair(i, pair) == ~TruthyStr(pair) \/ trades[i].currency_pair = pair
PassTimeframe(i, tf) == ~TruthyStr(tf) \/ trades[i].timeframe = tf
PassStrategy(i, st) == ~TruthyStr(st) \/ trades[i].strategy = st
PassFilters(i, pair, tf, st) ==
    PassPair(i, pair) /\ PassTimeframe(i, tf) /\ PassStrategy(i, st)

\* trade_tracker tt INNER JOIN trade_results tr ON tt.id = tr.trade_id
\* WHERE tt.status = 'CLOSED', over the tables T (trade ids) and R (result
\* ids): one row <<trade id, result id>> per matching result.
ClosedJoin(T, R) ==
    {x \in T \X R : results[x[2]].trade_id = x[1]
                    /\ trades[x[1]].status = "CLOSED"}

IsWin(x) == results[x[2]].result = "WIN"
IsLoss(x) == results[x[2]].result = "LOSS"
SumPL(rows) == SumF([x \in rows |-> results[x[2]].profit_loss], rows)
SumLot(rows) == SumF([x \in rows |-> trades[x[1]].lot_size], rows)
SumRR(rows) == SumF([x \in rows |-> trades[x[1]].risk_reward_ratio], rows)

\* COUNT(*), SUM(wins), SUM(profit_loss) of one group of joined rows.
GroupStats(rows) ==
    [total |-> Cardinality(rows),
     wins |-> Cardinality({x \in rows : IsWin(x)}),
     total_pl |-> SumPL(rows)]

\* Query 1 (lines 312-325): counts by status.  No user_id predicate.
\* SUM over no rows is NULL.
CountsQuery(T, pair, tf, st) ==
    LET rows == {i \in T : PassFilters(i, pair, tf, st)}
    IN  [total_trades |-> Cardinality(rows),
         open_trades |-> IF rows = {} THEN None
             ELSE Cardinality({i \in rows : trades[i].status = "OPEN"}),
         closed_trades |-> IF rows = {} THEN None
             ELSE Cardinality({i \in rows : trades[i].status = "CLOSED"})]

\* Queries 2 and 4 (lines 327-349, 380-394): the caller's joined rows.
UserRows(T, R, user_id, pair, tf, st) ==
    {x \in ClosedJoin(T, R) : /\ trades[x[1]].user_id = user_id
                              /\ PassFilters(x[1], pair, tf, st)}

\* Queries 3 and 9 (lines 351-366, 462-473): every user's joined rows.
AllRows(T, R, pair, tf, st) ==
    {x \in ClosedJoin(T, R) : PassFilters(x[1], pair, tf, st)}

\* Query 7 (lines 398-413): the timeframe filter is left out of the clause.
TimeframeRows(T, R, pair, st) ==
    {x \in ClosedJoin(T, R) : /\ trades[x[1]].timeframe # NoneStr
                              /\ PassPair(x[1], pair)
                              /\ PassStrategy(x[1], st)}

\* Query 8 (lines 430-445): the strategy filter is left out of the clause.
StrategyRows(T, R, pair, tf) ==
    {x \in ClosedJoin(T, R) : /\ TruthyStr(trades[x[1]].strategy)
                              /\ PassPair(x[1], pair)
                              /\ PassTimeframe(x[1], tf)}

\* Query 10 (lines 478-495): both are left out.
CombinedRows(T, R, pair) ==
    {x \in ClosedJoin(T, R) : /\ trades[x[1]].timeframe # NoneStr
                              /\ TruthyStr(trades[x[1]].strategy)
                              /\ PassPair(x[1], pair)}

SideOf(x) == trades[x[1]].trade_type
TimeframeOf(x) == trades[x[1]].timeframe
StrategyOf(x) == trades[x[1]].strategy
CombinedOf(x) == <<trades[x[1]].timeframe, trades[x[1]].strategy>>

\* All orders of the elements of S.
Perms(S) ==
    {s \in [1..Cardinality(S) -> S] :
        \A i, j \in 1..Cardinality(S) : i # j => s[i] # s[j]}

\* ORDER BY win ratio DESC, SUM(profit_loss) DESC: a before b is allowed.
\* Mutant: rows of equal win rate are left in any order.
RankedByWinRateOnly(a, b) ==
    a.wins * b.total >= b.wins * a.total

\* ORDER BY (wins * 1.0 / COUNT(*)) DESC, SUM(tr.profit_loss) DESC: row a
\* may come before row b.
RankedBefore(a, b) ==
    \/ a.wins * b.total > b.wins * a.total
    \/ /\ a.wins * b.total = b.wins * a.total
       /\ a.total_pl >= b.total_pl

\* The row orders a ranked GROUP BY may return: stats maps each group key
\* to its GroupStats.  SQL leaves the order of full ties open.
RankedOrders(stats) ==
    {s \in Perms(DOMAIN stats) :
        \A i, j \in 1..Len(s) : i < j => RankedBefore(stats[s[i]], stats[s[j]])}

\* GROUP BY: each key that occurs, with the statistics of its rows.
SideStats(rows) ==
    [k \in {SideOf(x) : x \in rows} |->
        GroupStats({x \in rows : SideOf(x) = k})]
TimeframeStats(rows) ==
    [k \in {TimeframeOf(x) : x \in rows} |->
        GroupStats({x \in rows : TimeframeOf(x) = k})]
StrategyStats(rows) ==
    [k \in {StrategyOf(x) : x \in rows} |->
        GroupStats({x \in rows : StrategyOf(x) = k})]
CombinedStats(rows) ==
    [k \in {CombinedOf(x) : x \in rows} |->
        GroupStats({x \in rows : CombinedOf(x) = k})]

\* LIMIT 5 of query 10.
CombinedLimit == 5
Limit(s, n) == IF Len(s) <= n THEN s ELSE SubSeq(s, 1, n)

\* round(n/d) to an integer, either sign (d > 0).
RoundInt(n, d) == IF n >= 0 THEN RoundDiv(n, d) ELSE -RoundDiv(-n, d)

\* The rows the four loops of lines 370, 417, 449 and 498 iterate over, in
\* order; every iteration assigns the locals wins and total_pl.
LoopRows(ss, sideOrder, ts, tfOrder, sts, stOrder, cs, cbOrder) ==
    [i \in 1..Len(sideOrder) |-> ss[sideOrder[i]]]
    \o [i \in 1..Len(tfOrder) |-> ts[tfOrder[i]]]
    \o [i \in 1..Len(stOrder) |-> sts[stOrder[i]]]
    \o [i \in 1..Len(cbOrder) |-> cs[cbOrder[i]]]

\* {"total", "wins", "win_rate", "total_pl"} of one side (lines 367-376);
\* win_rate is the unrounded percentage as a fraction.
SideEntry(ss, side) ==
    IF side \in DOMAIN ss
    THEN [total |-> ss[side].total, wins |-> ss[side].wins,
          win_rate |-> Frac(ss[side].wins * 100, ss[side].total),
          total_pl |-> ss[side].total_pl]
    ELSE [total |-> 0, wins |-> 0, win_rate |-> Frac(0, 1), total_pl |-> 0]

\* buy win_rate > sell win_rate, on the fractions.
FracGreater(a, b) == a.num * b.den > b.num * a.den

\* One entry of all_timeframes / all_strategies / the combined list.
RankEntry(key, g) ==
    [key |-> key, total_trades |-> g.total, wins |-> g.wins,
     win_rate |-> Round2(g.wins * 100, g.total), total_pl |-> g.total_pl]

\* Lines 339-341 and 388-390: a filter value equal to user_id is dropped
\* from the parameters but not from the clause, and the execute raises.
BindingMismatch(user_id, pair, tf, st) ==
    \/ TruthyStr(pair) /\ pair = user_id
    \/ TruthyStr(tf) /\ tf = user_id
    \/ TruthyStr(st) /\ st = user_id

\* Line 523: avg_win / avg_loss with avg_loss non-zero and avg_win None
\* (closed results of the caller, none of them a WIN) raises TypeError.
ProfitFactorRaises(T, R, user_id, pair, tf, st) ==
    LET rows == UserRows(T, R, user_id, pair, tf, st)
        winRows == {x \in rows : IsWin(x)}
        lossRows == {x \in rows : IsLoss(x)}
    IN  /\ winRows = {}
        /\ lossRows # {}
        /\ SumPL(lossRows) # 0

InsightsRaises(T, R, user_id, pair, tf, st) ==
    \/ BindingMismatch(user_id, pair, tf, st)
    \/ ProfitFactorRaises(T, R, user_id, pair, tf, st)

\* The report of lines 510-550 computed over the tables T and R, with the
\* row orders the four grouped queries returned.  Money is in whole units
\* (round(x, 2) of an integer is the integer); averages and percentages
\* are in hundredths.
Report(T, R, user_id, pair, tf, st, sideOrder, tfOrder, stOrder, cbOrder) ==
    LET counts == CountsQuery(T, pair, tf, st)
        rows == UserRows(T, R, user_id, pair, tf, st)
        winRows == {x \in rows : IsWin(x)}
        lossRows == {x \in rows : IsLoss(x)}
        total_closed == Cardinality(rows)
        avg_win == Frac(SumPL(winRows), Cardinality(winRows))
        avg_loss == Frac(SumPL(lossRows), Cardinality(lossRows))
        win_rate == IF total_closed > 0
                    THEN Round2(Cardinality(winRows) * 100, total_closed)
                    ELSE 0
        ss == SideStats(AllRows(T, R, pair, tf, st))
        buy_stats == SideEntry(ss, "BUY")
        sell_stats == SideEntry(ss, "SELL")
        avg_lot_win == Frac(SumLot(winRows), Cardinality(winRows))
        avg_lot_loss == Frac(SumLot(lossRows), Cardinality(lossRows))
        lotWin == IF avg_lot_win.den = 0 THEN Frac(0, 1) ELSE avg_lot_win
        lotLoss == IF avg_lot_loss.den = 0 THEN Frac(0, 1) ELSE avg_lot_loss
        ts == TimeframeStats(TimeframeRows(T, R, pair, st))
        sts == StrategyStats(StrategyRows(T, R, pair, tf))
        rrRows == {x \in AllRows(T, R, pair, tf, st) :
                      trades[x[1]].risk_reward_ratio # None}
        rrWin == {x \in rrRows : IsWin(x)}
        rrLoss == {x \in rrRows : IsLoss(x)}
        cs == CombinedStats(CombinedRows(T, R, pair))
        top == Limit(cbOrder, CombinedLimit)
        loop == LoopRows(ss, sideOrder, ts, tfOrder, sts, stOrder, cs, top)
        wins == IF loop = <<>> THEN Cardinality(winRows)
                ELSE loop[Len(loop)].wins
        total_pl == IF loop = <<>> THEN SumPL(rows)
                    ELSE loop[Len(loop)].total_pl
    IN  [summary |->
            [total_trades |-> counts.total_trades,
             open_trades |-> counts.open_trades,
             closed_trades |-> counts.closed_trades,
             total_profit_loss |-> total_pl,
             win_rate |-> win_rate,
             wins |-> wins,
             losses |-> Cardinality(lossRows)],
         performance_metrics |->
            [average_profit_per_win |->
                IF avg_win.den = 0 THEN 0 ELSE Round2(avg_win.num, avg_win.den),
             average_loss_per_loss |->
                IF avg_loss.den = 0 THEN 0
                ELSE Round2(avg_loss.num, avg_loss.den),
             profit_factor |->
                IF avg_loss.den # 0 /\ avg_loss.num # 0 /\ avg_win.den # 0
                THEN Round2(Abs(avg_win.num * avg_loss.den),
                            Abs(avg_win.den * avg_loss.num))
                ELSE None],
         best_performing_side |->
            [side |-> IF FracGreater(buy_stats.win_rate, sell_stats.win_rate)
                      THEN "BUY"
                      ELSE IF FracGreater(sell_stats.win_rate,
                                          buy_stats.win_rate)
                      THEN "SELL" ELSE "TIE",
             buy_stats |-> buy_stats,
             sell_stats |-> sell_stats],
         lot_size_impact |->
            [average_lot_size_wins |-> RoundDiv(lotWin.num, lotWin.den),
             average_lot_size_losses |-> RoundDiv(lotLoss.num, lotLoss.den),
             difference |->
                RoundInt(lotWin.num * lotLoss.den - lotLoss.num * lotWin.den,
                         lotWin.den * lotLoss.den)],
         timeframe_performance |->
            [best_timeframe |-> IF tfOrder = <<>> THEN NoneStr ELSE tfOrder[1],
             all_timeframes |->
                [i \in 1..Len(tfOrder) |-> RankEntry(tfOrder[i], ts[tfOrder[i]])]],
         strategy_performance |->
            [best_strategy |-> IF stOrder = <<>> THEN NoneStr ELSE stOrder[1],
             all_strategies |->
                [i \in 1..Len(stOrder) |-> RankEntry(stOrder[i], sts[stOrder[i]])]],
         risk_reward_analysis |->
            [average_rr_winning_trades |->
                IF rrWin = {} \/ SumRR(rrWin) = 0 THEN None
                ELSE RoundDiv(SumRR(rrWin), Cardinality(rrWin)),
             average_rr_losing_trades |->
                IF rrLoss = {} \/ SumRR(rrLoss) = 0 THEN None
                ELSE RoundDiv(SumRR(rrLoss), Cardinality(rrLoss))],
         best_combinations |->
            [i \in 1..Len(top) |-> RankEntry(top[i], cs[top[i]])]]

\* Every report the call may return over the tables T and R: one per order
\* the grouped queries may return their rows in.
Reports(T, R, user_id, pair, tf, st) ==
    {Report(T, R, user_id, pair, tf, st, so, to, sto, co) :
        so \in Perms(DOMAIN SideStats(AllRows(T, R, pair, tf, st))),
        to \in RankedOrders(TimeframeStats(TimeframeRows(T, R, pair, st))),
        sto \in RankedOrders(StrategyStats(StrategyRows(T, R, pair, tf))),
        co \in RankedOrders(CombinedStats(CombinedRows(T, R, pair)))}

\* One call of get_trade_insights.  It only reads; its eight SELECTs are
\* taken as one read of the committed tables.
get_trade_insights(p, user_id, pair, tf, st) ==
    /\ calls[p].pc = "idle"
    /\ IF InsightsRaises(DOMAIN trades, DOMAIN results, user_id, pair, tf, st)
       THEN resp' = [op |-> "get_trade_insights", kind |-> "exception",
                     proc |-> p, user_id |-> user_id, currency_pair |-> pair,
                     timeframe |-> tf, strategy |-> st]
       ELSE \E r \in Reports(DOMAIN trades, DOMAIN results,
                             user_id, pair, tf, st) :
               resp' = [op |-> "get_trade_insights", kind |-> "ok",
                        proc |-> p, user_id |-> user_id,
                        currency_pair |-> pair, timeframe |-> tf,
                        strategy |-> st, report |-> r]
    /\ UNCHANGED <<users, trades, results, alerts, calls, now>>

\* ------------------------------------------------------ check_risk_alerts
\* The defaults of the parameters (lines 556-560); the two percentages are
\* whole percents.
DefaultRecentTradesCount == 10
DefaultConsecutiveLossThreshold == 3
DefaultMaxTradesPerHour == 5
DefaultMaxRiskPerTradePercent == 2
DefaultDrawdownThresholdPercent == 10

\* The arguments of a call: the user, the two parameters the inputs vary,
\* and the other three at their defaults.
RiskArgs(us, counts, thresholds) ==
    [user_id : us, recent_trades_count : counts,
     consecutive_loss_threshold : thresholds,
     max_trades_per_hour : {DefaultMaxTradesPerHour},
     max_risk_per_trade_percent : {DefaultMaxRiskPerTradePercent},
     drawdown_threshold_percent : {DefaultDrawdownThresholdPercent}]

RiskArgsDefault ==
    RiskArgs(Users, {DefaultRecentTradesCount},
             {DefaultConsecutiveLossThreshold})

\* Lines 581-588: the rows of trade_tracker LEFT JOIN trade_results for the
\* user's CLOSED trades, as pairs <<trade id, result id>>; the result id is
\* 0 where the join finds no result.
ClosedRows(user_id) ==
    LET closed == {t \in DOMAIN trades : /\ trades[t].status = "CLOSED"
                                         /\ trades[t].user_id = user_id}
    IN  {x \in closed \X DOMAIN results : results[x[2]].trade_id = x[1]}
        \cup {<<t, 0>> : t \in {c \in closed :
                 \A k \in DOMAIN results : results[k].trade_id # c}}

\* Lines 589-594: every sequence the query may return: ORDER BY
\* tt.timestamp DESC (rows of equal timestamp in any order), LIMIT
\* recent_trades_count * 2.
RecentTrades(user_id, recent_trades_count) ==
    {Limit(s, recent_trades_count * 2) :
        s \in {q \in Perms(ClosedRows(user_id)) :
                 \A i, k \in DOMAIN q :
                    i < k => trades[q[i][1]].timestamp
                                >= trades[q[k][1]].timestamp}}

\* Column 9 of a row: tr.result, None where the join found no result.
RowResult(row) == IF row[2] = 0 THEN NoneStr ELSE results[row[2]].result

\* Lines 617-622: the number of LOSS rows at the front of
\* recent_trades[:recent_trades_count], up to the first other row.
ConsecutiveLosses(recent_trades, recent_trades_count) ==
    LET front == Limit(recent_trades, recent_trades_count)
        runs == {n \in 0..Len(front) :
                    \A i \in 1..n : RowResult(front[i]) = "LOSS"}
    IN  CHOOSE n \in runs : \A m \in runs : m <= n

\* Line 829: risk_order.get(level, 0).
RiskOrder(risk_level) ==
    CASE risk_level = "CRITICAL" -> 4
      [] risk_level = "HIGH" -> 3
      [] risk_level = "MEDIUM" -> 2
      [] risk_level = "LOW" -> 1
      [] OTHER -> 0

\* Lines 616-807: the position of the rule that appends an alert of this
\* type; the rules run in this order.
RuleOf(alert_type) ==
    CASE alert_type = "CONSECUTIVE_LOSSES" -> 1
      [] alert_type = "REVENGE_TRADING" -> 2
      [] alert_type = "OVERCONFIDENCE" -> 3
      [] alert_type = "OVERTRADING" -> 4
      [] alert_type = "HIGH_RISK_PER_TRADE" -> 5
      [] alert_type = "DRAWDOWN" -> 6
      [] alert_type = "EMOTIONAL" -> 7
      [] alert_type = "POOR_RISK_REWARD" -> 8
      [] alert_type = "MISSING_STOP_LOSS" -> 9
      [] alert_type = "ACCOUNT_RISK_PERCENTAGE" -> 10
      [] OTHER -> 0

\* Mutant: the call changes the trades it has looked at.
check_risk_alerts_closing(p, a) ==
    /\ calls[p].pc = "idle"
    /\ resp' = [op |-> "check_risk_alerts", kind |-> "exception", proc |-> p,
                user_id |-> a.user_id, error |-> "ProgrammingError"]
    /\ trades' = [t \in DOMAIN trades |->
                    IF trades[t].user_id = a.user_id
                    THEN [trades[t] EXCEPT !.status = "CLOSED"]
                    ELSE trades[t]]
    /\ UNCHANGED <<users, results, alerts, calls, now>>

\* Lines 576-607, one call by process p with arguments a.  The query for
\* the closed trades (581-595) runs.  The query for the open trades (lines
\* 598-606) has one placeholder "user_id = ?" and is executed without
\* parameters, so sqlite3 raises ProgrammingError (incorrect number of
\* bindings) on every call: the call ends there, whatever the first query
\* returned, before the check for empty sets (609), before any of the ten
\* rules (616-807), before any INSERT INTO risk_monitor (809-826) and
\* before the sort (828-830).
check_risk_alerts(p, a) ==
    /\ calls[p].pc = "idle"
    /\ resp' = [op |-> "check_risk_alerts", kind |-> "exception", proc |-> p,
                user_id |-> a.user_id, error |-> "ProgrammingError"]
    /\ UNCHANGED <<users, trades, results, alerts, calls, now>>

\* Time passes: the database clock moves on by half an hour.
Tick ==
    /\ now < MaxTime
    /\ now' = now + 1
    /\ UNCHANGED <<users, trades, results, alerts, calls, resp>>

\* --------------------------------------------------------- specifications
\* Concurrent callers: any interleaving of the steps of save_trade and
\* log_trade_result calls, and a call may fail between its two commits.
Next ==
    \E p \in Procs :
        \/ \E a \in ArgsConc : save_trade(p, a)
        \/ \E u \in Users, t \in TradeIds, o \in Outcomes :
              log_trade_result_select(p, u, t, o)
        \/ log_trade_result_insert(p)
        \/ log_trade_result_update(p)
        \/ log_trade_result_fail(p)

Spec == Init /\ [][Next]_vars

\* One caller issuing calls of the four tools one after the other; every
\* call runs to its return.
NextSeq ==
    \/ \E a \in ArgsSeq : save_trade(1, a)
    \/ \E u \in Users, t \in TradeIds, o \in Outcomes :
          log_trade_result_select(1, u, t, o)
    \/ log_trade_result_insert(1)
    \/ log_trade_result_update(1)
    \/ \E u \in Users : get_trade_insights(1, u, NoneStr, NoneStr, NoneStr)
    \/ \E a \in RiskArgsDefault : check_risk_alerts(1, a)

SpecSeq == Init /\ [][NextSeq]_vars

\* One caller opening and closing trades over the price inputs ArgsPL.
NextPL ==
    \/ \E a \in ArgsPL : save_trade(1, a)
    \/ \E t \in TradeIds, o \in Outcomes :
          log_trade_result_select(1, "u1", t, o)
    \/ log_trade_result_insert(1)
    \/ log_trade_result_update(1)

SpecPL == Init /\ [][NextPL]_vars

\* One caller recording trades of both users and asking for the report,
\* with and without filters.
FilterTimeframes == {NoneStr, "1h"}
FilterStrategies == {NoneStr}

NextInsights ==
    \/ \E a \in ArgsInsights : save_trade(1, a)
    \/ \E u \in Users, t \in TradeIds, o \in Outcomes :
          log_trade_result_select(1, u, t, o)
    \/ log_trade_result_insert(1)
    \/ log_trade_result_update(1)
    \/ \E u \in Users, tf \in FilterTimeframes, st \in FilterStrategies :
          get_trade_insights(1, u, NoneStr, tf, st)

SpecInsights == Init /\ [][NextInsights]_vars

\* One caller recording and closing trades of both users while time
\* passes, and asking for the risk report with several settings of
\* recent_trades_count and consecutive_loss_threshold.
ArgsRisk == TradeArgs(Users, {10}, {12}, {8}, {1}, {100}, {"BUY"},
                      {NoneStr}, {NoneStr})

RiskArgsRisk == RiskArgs(Users, {1, DefaultRecentTradesCount},
                         {1, 2, DefaultConsecutiveLossThreshold})

NextRisk ==
    \/ \E a \in ArgsRisk : save_trade(1, a)
    \/ \E u \in Users, t \in TradeIds, o \in Outcomes :
          log_trade_result_select(1, u, t, o)
    \/ log_trade_result_insert(1)
    \/ log_trade_result_update(1)
    \/ \E a \in RiskArgsRisk : check_risk_alerts(1, a)
    \/ Tick

SpecRisk == Init /\ [][NextRisk]_vars

\* Concurrent callers of user u1 saving and closing trades while risk
\* reports are asked for.
ArgsScan == TradeArgs({"u1"}, {10}, {12}, {8}, {1}, {100}, {"BUY"},
                      {NoneStr}, {NoneStr})

RiskArgsScan == RiskArgs({"u1"}, {DefaultRecentTradesCount},
                         {DefaultConsecutiveLossThreshold})

NextScan ==
    \E p \in Procs :
        \/ \E a \in ArgsScan : save_trade(p, a)
        \/ \E t \in TradeIds, o \in Outcomes :
              log_trade_result_select(p, "u1", t, o)
        \/ log_trade_result_insert(p)
        \/ log_trade_result_update(p)
        \/ log_trade_result_fail(p)
        \/ \E a \in RiskArgsScan : check_risk_alerts(p, a)

SpecScan == Init /\ [][NextScan]_vars

\* One caller saving trades over prices that include 0, targets on either
\* side of the entry price or equal to it, and ratios that need rounding.
ArgsRR == TradeArgs({"u1"}, {0, 10}, {None, 0, 12, 15}, {None, 0, 7, 8, 10},
                    {1}, {100}, Sides, {NoneStr}, {NoneStr})

NextRR == \E a \in ArgsRR : save_trade(1, a)

SpecRR == Init /\ [][NextRR]_vars

\* The report asked for over ledgers of NumRankTrades closed trades with
\* their results: the trades go through the six (timeframe, strategy)
\* pairs in turn with lot sizes 2, 3, 1; each outcome is WIN or LOSS,
\* the second trade belongs to either user, and the last trade has its own
\* pair, the first trade's pair, or no timeframe.
NumRankTrades == 6
RankTimeframes == <<"1h", "4h", "1d">>
RankStrategies == <<"smc", "ict">>

RankLedgers ==
    [owner : Users, last : {"own", "first", "none"},
     outcome : [1..NumRankTrades -> Outcomes]]

RankArgs(i, c) ==
    LET k == IF i = NumRankTrades /\ c.last = "first" THEN 1 ELSE i
    IN  [user_id |-> IF i = 2 THEN c.owner ELSE "u1",
         entry_price |-> 10, take_profit |-> 12, stop_loss |-> 8,
         lot_size |-> 1 + (i % 3), balance |-> 100, trade_type |-> "BUY",
         currency_pair |-> "XAU/USD",
         timeframe |-> IF i = NumRankTrades /\ c.last = "none" THEN NoneStr
                       ELSE RankTimeframes[((k - 1) % 3) + 1],
         strategy |-> RankStrategies[(((k - 1) \div 3) % 2) + 1]]

InitRank ==
    \E c \in RankLedgers :
        /\ now = 0
        /\ users = {RankArgs(i, c).user_id : i \in 1..NumRankTrades}
        /\ trades = [i \in 1..NumRankTrades |->
                        Stamped([TradeRow(RankArgs(i, c))
                                    EXCEPT !.status = "CLOSED"])]
        /\ results = [i \in 1..NumRankTrades |->
                         Stamped([user_id |-> RankArgs(i, c).user_id,
                                  trade_id |-> i, result |-> c.outcome[i],
                                  profit_loss |->
                                     ProfitLoss(TradeRow(RankArgs(i, c)),
                                                c.outcome[i]).value])]
        /\ alerts = <<>>
        /\ calls = [p \in Procs |-> Idle]
        /\ resp = NoResp

\* One call on each ledger.
NextRank ==
    /\ resp = NoResp
    /\ \E u \in Users : get_trade_insights(1, u, NoneStr, NoneStr, NoneStr)

SpecRank == InitRank /\ [][NextRank]_vars

\* The risk report asked for over ledgers of NumRuleTrades trades of user
\* u1, saved half an hour apart: each trade is OPEN, closed as WIN or
\* closed as LOSS; the newest trade was saved with balance 80 or 100 and
\* the oldest with or without a stop-loss (a trade without a stop-loss
\* cannot have been closed as LOSS).
NumRuleTrades == 5

RuleLedgers ==
    {c \in [state : [1..NumRuleTrades -> {"OPEN", "WIN", "LOSS"}],
            balance : {80, 100}, stop_loss : {None, 8}] :
        ~(c.stop_loss = None /\ c.state[1] = "LOSS")}

RuleArgs(i, c) ==
    [user_id |-> "u1", entry_price |-> 10, take_profit |-> 12,
     stop_loss |-> IF i = 1 THEN c.stop_loss ELSE 8,
     lot_size |-> 1,
     balance |-> IF i = NumRuleTrades THEN c.balance ELSE 100,
     trade_type |-> "BUY", currency_pair |-> "XAU/USD",
     timeframe |-> NoneStr, strategy |-> NoneStr]

InitRules ==
    \E c \in RuleLedgers :
        LET closed == {i \in 1..NumRuleTrades : c.state[i] # "OPEN"}
            order == CHOOSE q \in Perms(closed) :
                        \A i, k \in DOMAIN q : i < k => q[i] < q[k]
        IN  /\ now = NumRuleTrades
            /\ users = {"u1"}
            /\ trades = [i \in 1..NumRuleTrades |->
                   [Stamped([TradeRow(RuleArgs(i, c)) EXCEPT
                       !.status = IF i \in closed THEN "CLOSED" ELSE "OPEN"])
                    EXCEPT !.timestamp = i - 1]]
            /\ results = [j \in 1..Cardinality(closed) |->
                   Stamped([user_id |-> "u1", trade_id |-> order[j],
                            result |-> c.state[order[j]],
                            profit_loss |->
                               ProfitLoss(TradeRow(RuleArgs(order[j], c)),
                                          c.state[order[j]]).value])]
            /\ alerts = <<>>
            /\ calls = [p \in Procs |-> Idle]
            /\ resp = NoResp

NextRules == \E a \in RiskArgsDefault : check_risk_alerts(1, a)

SpecRules == InitRules /\ [][NextRules]_vars

\* ----------------------------------------------------------------- claims
Ledger == <<users, trades, results, alerts>>

ResultsOf(t) == {j \in DOMAIN results : results[j].trade_id = t}

\* C1: in every committed state a Result exists for a trade exactly when
\* the trade is CLOSED: no Result for a trade that is still OPEN, and no
\* CLOSED trade without a Result.
C1_ResultIffClosed ==
    /\ \A j \in DOMAIN results :
          trades[results[j].trade_id].status = "CLOSED"
    /\ \A t \in DOMAIN trades :
          trades[t].status = "CLOSED" => ResultsOf(t) # {}

\* C2: under any interleaving of log_trade_result calls, no trade ever has
\* more than one Result row.
C2_AtMostOneResult ==
    \A t \in DOMAIN trades : Cardinality(ResultsOf(t)) <= 1

\* C3: a log_trade_result call by the owner on a trade that an earlier call
\* has closed returns the already-closed payload, changes no row, and
\* leaves exactly one Result for the trade.
C3_SecondCallConflict ==
    [][\A u \in Users, t \in TradeIds, o \in Outcomes :
         (/\ log_trade_result_select(1, u, t, o)
          /\ t \in DOMAIN trades
          /\ trades[t].user_id = u
          /\ trades[t].status = "CLOSED")
         => /\ resp' = [op |-> "log_trade_result", kind |-> "already_closed",
                        proc |-> 1, user_id |-> u, trade_id |-> t]
            /\ calls'[1].pc = "idle"
            /\ Ledger' = Ledger
            /\ Cardinality({j \in DOMAIN results' :
                               results'[j].trade_id = t}) = 1]_vars

C3_Witness ==
    /\ resp.op = "log_trade_result"
    /\ resp.kind = "already_closed"
    /\ trades[resp.trade_id].status = "CLOSED"
    /\ Cardinality(ResultsOf(resp.trade_id)) = 1

\* C4: over any sequence of calls of the four tools, every trade is created
\* OPEN, no trade row disappears, and a CLOSED trade stays CLOSED.
C4_StatusOneWay ==
    [][/\ \A t \in DOMAIN trades :
             /\ t \in DOMAIN trades'
             /\ trades[t].status = "CLOSED" => trades'[t].status = "CLOSED"
       /\ \A t \in DOMAIN trades' :
             t \notin DOMAIN trades => trades'[t].status = "OPEN"]_vars

C4_Witness ==
    /\ resp.op \in {"get_trade_insights", "check_risk_alerts"}
    /\ \E t \in DOMAIN trades : trades[t].status = "CLOSED"
    /\ \E t \in DOMAIN trades : trades[t].status = "OPEN"

\* C5: a save_trade call with lot_size <= 0 returns the validation error
\* and changes nothing: no trade row and no user row is created.
C5_BadLotRejected ==
    [][\A a \in ArgsSeq :
         (a.lot_size <= 0 /\ save_trade(1, a))
         => /\ resp' = [op |-> "save_trade", kind |-> "error", proc |-> 1,
                        lot_size |-> a.lot_size]
            /\ Ledger' = Ledger]_vars

C5_Witness ==
    /\ resp.op = "save_trade"
    /\ resp.kind = "error"
    /\ resp.lot_size = 0
    /\ trades # <<>>

\* C6: log_trade_result with WIN on an OPEN trade without take-profit, or
\* LOSS on an OPEN trade without stop-loss, returns the validation error,
\* creates no Result and leaves the trade OPEN.
C6_MissingTargetRejected ==
    [][\A u \in Users, t \in TradeIds, o \in Outcomes :
         (/\ log_trade_result_select(1, u, t, o)
          /\ t \in DOMAIN trades
          /\ trades[t].user_id = u
          /\ trades[t].status = "OPEN"
          /\ \/ o = "WIN" /\ trades[t].take_profit = None
             \/ o = "LOSS" /\ trades[t].stop_loss = None)
         => /\ resp' = [op |-> "log_trade_result", kind |-> "error",
                        proc |-> 1, user_id |-> u, trade_id |-> t,
                        result |-> o]
            /\ calls'[1].pc = "idle"
            /\ Ledger' = Ledger
            /\ trades'[t].status = "OPEN"]_vars

C6_Witness ==
    /\ resp.op = "log_trade_result"
    /\ resp.kind = "error"
    /\ trades[resp.trade_id].status = "OPEN"
    /\ ResultsOf(resp.trade_id) = {}
    /\ \/ resp.result = "WIN" /\ trades[resp.trade_id].take_profit = None
       \/ resp.result = "LOSS" /\ trades[resp.trade_id].stop_loss = None

\* C7: log_trade_result with a trade id that does not exist, or that
\* belongs to another user than the given user_id, returns the not-found
\* payload and changes nothing.
C7_NotFoundChangesNothing ==
    [][\A u \in Users, t \in TradeIds, o \in Outcomes :
         (/\ log_trade_result_select(1, u, t, o)
          /\ \/ t \notin DOMAIN trades
             \/ trades[t].user_id # u)
         => /\ resp' = [op |-> "log_trade_result", kind |-> "not_found",
                        proc |-> 1, user_id |-> u, trade_id |-> t]
            /\ calls'[1].pc = "idle"
            /\ Ledger' = Ledger]_vars

C7_Witness ==
    /\ resp.op = "log_trade_result"
    /\ resp.kind = "not_found"
    /\ resp.trade_id \in DOMAIN trades
    /\ trades[resp.trade_id].user_id # resp.user_id
    /\ trades[resp.trade_id].status = "OPEN"
    /\ ResultsOf(resp.trade_id) = {}

\* C8: every stored Result has profit_loss >= 0 when its result is WIN and
\* profit_loss <= 0 when it is LOSS.
C8_SignMatchesOutcome ==
    \A j \in DOMAIN results :
        /\ results[j].result = "WIN" => results[j].profit_loss >= 0
        /\ results[j].result = "LOSS" => results[j].profit_loss <= 0

\* The caller's own rows of the two tables.
OwnTrades(u) == {t \in DOMAIN trades : trades[t].user_id = u}
OwnResults(u) == {j \in DOMAIN results : results[j].user_id = u}

\* C9: the report get_trade_insights returns for user u is a report of the
\* ledger that holds only u's trades and results: rows of other users do
\* not change any figure.
C9_ReportOfOwnRowsOnly ==
    [][\A u \in Users, tf \in FilterTimeframes, st \in FilterStrategies :
         (get_trade_insights(1, u, NoneStr, tf, st) /\ resp'.kind = "ok")
         => resp'.report \in
               Reports(OwnTrades(u), OwnResults(u), u, NoneStr, tf, st)]_vars

\* C10: in a ledger that holds only the caller's rows and with no filter
\* given, the report's summary.wins, summary.losses and
\* summary.total_profit_loss are the number of WIN results, the number of
\* LOSS results and the sum of profit/loss over the caller's CLOSED trades
\* with a Result, and wins + losses is the number of those trades.
C10_SummaryCounts ==
    [][\A u \in Users :
         (/\ get_trade_insights(1, u, NoneStr, NoneStr, NoneStr)
          /\ resp'.kind = "ok"
          /\ \A t \in DOMAIN trades : trades[t].user_id = u)
         => LET rows == UserRows(DOMAIN trades, DOMAIN results,
                                 u, NoneStr, NoneStr, NoneStr)
                s == resp'.report.summary
            IN  /\ s.wins = Cardinality({x \in rows : IsWin(x)})
                /\ s.losses = Cardinality({x \in rows : IsLoss(x)})
                /\ s.total_profit_loss = SumPL(rows)
                /\ s.wins + s.losses = Cardinality(rows)]_vars

\* C11: get_trade_insights called without filters for a user who has no
\* CLOSED trade with a Result raises no error and returns win_rate = 0 and
\* total_profit_loss = 0, whatever open trades that user has and whatever
\* trades other users have.
C11_NoClosedTradesGivesZero ==
    [][\A u \in Users :
         (/\ get_trade_insights(1, u, NoneStr, NoneStr, NoneStr)
          /\ UserRows(DOMAIN trades, DOMAIN results,
                      u, NoneStr, NoneStr, NoneStr) = {})
         => /\ resp'.kind = "ok"
            /\ resp'.report.summary.win_rate = 0
            /\ resp'.report.summary.total_profit_loss = 0]_vars

\* C12: when get_trade_insights is given a timeframe filter, the timeframe
\* ranking of the report holds no other timeframe than the one asked for,
\* and the best timeframe is that one or none.
C12_FilterCoversEveryAggregate ==
    [][\A u \in Users, tf \in FilterTimeframes \ {NoneStr} :
         (get_trade_insights(1, u, NoneStr, tf, NoneStr) /\ resp'.kind = "ok")
         => LET tp == resp'.report.timeframe_performance
            IN  /\ \A i \in DOMAIN tp.all_timeframes :
                      tp.all_timeframes[i].key = tf
                /\ tp.best_timeframe \in {tf, NoneStr}]_vars

\* C13: check_risk_alerts for a user with no CLOSED and no OPEN trade
\* returns the empty report (no alerts, total 0, the message "No trades
\* found to analyze") without raising and writes no row.
C13_NoTradesEmptyReport ==
    [][\A a \in RiskArgsRisk :
         (check_risk_alerts(1, a) /\ OwnTrades(a.user_id) = {})
         => /\ resp' = [op |-> "check_risk_alerts", kind |-> "ok",
                        proc |-> 1, user_id |-> a.user_id, alerts |-> <<>>,
                        total_alerts |-> 0,
                        message |-> "No trades found to analyze"]
            /\ Ledger' = Ledger]_vars

\* C14: when the run of LOSS results at the front of the newest
\* recent_trades_count closed trades of the user is at least
\* consecutive_loss_threshold, check_risk_alerts returns a report with
\* exactly one CONSECUTIVE_LOSSES alert, CRITICAL when the run is 5 or more
\* and HIGH otherwise.
C14_ConsecutiveLossesAlert ==
    [][\A a \in RiskArgsRisk :
         (/\ check_risk_alerts(1, a)
          /\ \A rt \in RecentTrades(a.user_id, a.recent_trades_count) :
                ConsecutiveLosses(rt, a.recent_trades_count)
                   >= a.consecutive_loss_threshold)
         => /\ resp'.kind = "ok"
            /\ \E rt \in RecentTrades(a.user_id, a.recent_trades_count) :
                  LET run == ConsecutiveLosses(rt, a.recent_trades_count)
                      found == {i \in DOMAIN resp'.alerts :
                                   resp'.alerts[i].alert_type
                                      = "CONSECUTIVE_LOSSES"}
                  IN  /\ Cardinality(found) = 1
                      /\ \A i \in found :
                            resp'.alerts[i].risk_level
                               = IF run >= 5 THEN "CRITICAL" ELSE "HIGH"]_vars

\* C15: when some adjacent pair (newer, older) of the user's closed trades,
\* newest first, has an older trade whose result is LOSS and a newer trade
\* opened not before and less than one hour after that result was recorded,
\* check_risk_alerts returns a report with exactly one REVENGE_TRADING
\* alert, of level HIGH.
C15_RevengeTradingAlert ==
    [][\A a \in RiskArgsRisk :
         (/\ check_risk_alerts(1, a)
          /\ \A rt \in RecentTrades(a.user_id, a.recent_trades_count) :
                \E i \in 1..(Len(rt) - 1) :
                   /\ RowResult(rt[i + 1]) = "LOSS"
                   /\ LET since == trades[rt[i][1]].timestamp
                                      - results[rt[i + 1][2]].timestamp
                      IN  0 <= since /\ since < TicksPerHour)
         => /\ resp'.kind = "ok"
            /\ LET found == {i \in DOMAIN resp'.alerts :
                                resp'.alerts[i].alert_type
                                   = "REVENGE_TRADING"}
               IN  /\ Cardinality(found) = 1
                   /\ \A i \in found :
                         resp'.alerts[i].risk_level = "HIGH"]_vars

\* C16: for a user who has trades, check_risk_alerts returns an alerts list
\* that is non-increasing in severity rank, with alerts of equal severity
\* in the order of the rules that raised them.
C16_AlertsSortedBySeverity ==
    [][\A a \in RiskArgsRisk :
         (check_risk_alerts(1, a) /\ OwnTrades(a.user_id) # {})
         => /\ resp'.kind = "ok"
            /\ \A i, j \in DOMAIN resp'.alerts :
                  i < j =>
                     LET ri == RiskOrder(resp'.alerts[i].risk_level)
                         rj == RiskOrder(resp'.alerts[j].risk_level)
                     IN  /\ ri >= rj
                         /\ ri = rj =>
                               RuleOf(resp'.alerts[i].alert_type)
                                  < RuleOf(resp'.alerts[j].alert_type)]_vars

\* C17: a check_risk_alerts call ends in one of two ways: it returns its
\* sorted report (the alerts stored, or left unstored because the storage
\* is read-only), or it fails because storing the alerts failed with a
\* storage error other than read-only; either way no row of a failed or
\* read-only scan is added to the alerts.
C17_PersistFailureOutcomes ==
    [][\A a \in RiskArgsRisk :
         (check_risk_alerts(1, a) /\ OwnTrades(a.user_id) # {})
         => \/ resp'.kind = "ok"
            \/ /\ resp'.kind = "exception"
               /\ resp'.error = "OperationalError"
               /\ alerts' = alerts]_vars

\* C18: a check_risk_alerts call made while another call is between the
\* two commits of log_trade_result on a trade of the same user returns a
\* report, and the user's trades split into a closed set and an open set
\* such that every trade is in exactly one of them, every trade of the
\* closed set has its Result and no trade of the open set has a Result.
C18_ScanOnConsistentSnapshot ==
    [][\A p \in Procs, a \in RiskArgsScan :
         (/\ check_risk_alerts(p, a)
          /\ \E q \in Procs : /\ calls[q].pc = "update"
                              /\ calls[q].user_id = a.user_id)
         => /\ resp'.kind = "ok"
            /\ \E closed \in SUBSET OwnTrades(a.user_id) :
                  LET open == OwnTrades(a.user_id) \ closed
                  IN  /\ \A t \in closed : /\ trades[t].status = "CLOSED"
                                           /\ ResultsOf(t) # {}
                      /\ \A t \in open : /\ trades[t].status = "OPEN"
                                         /\ ResultsOf(t) = {}]_vars

\* The step is a step of a log_trade_result call of process p.
LogStep(p) ==
    \/ \E u \in Users, t \in TradeIds, o \in Outcomes :
          log_trade_result_select(p, u, t, o)
    \/ log_trade_result_insert(p)
    \/ log_trade_result_update(p)
    \/ log_trade_result_fail(p)

\* C19: no step of a log_trade_result call, whether the call succeeds,
\* returns an error or fails, adds or removes a trade or changes anything
\* on a trade but the status of the call's target: owner, prices, lot size,
\* balance and risk:reward ratio stay as stored, and on success the new
\* balance (stored balance + profit/loss) is in the payload only.
C19_OnlyTargetStatusChanges ==
    [][\A p \in Procs :
         LogStep(p)
         => /\ DOMAIN trades' = DOMAIN trades
            /\ \A t \in DOMAIN trades :
                  /\ [trades'[t] EXCEPT !.status = trades[t].status]
                        = trades[t]
                  /\ trades'[t] # trades[t] => t = calls[p].trade_id
            /\ log_trade_result_update(p)
               => /\ resp'.new_balance
                        = trades[resp'.trade_id].balance + resp'.profit_loss
                  /\ trades'[resp'.trade_id].balance
                        = trades[resp'.trade_id].balance]_vars

\* A call has closed a trade with a profit or loss, and the balance stored
\* on the trade is not the new balance the call returned.
C19_Witness ==
    /\ resp.op = "log_trade_result"
    /\ resp.kind = "ok"
    /\ resp.profit_loss # 0
    /\ trades[resp.trade_id].status = "CLOSED"
    /\ trades[resp.trade_id].balance # resp.new_balance

\* C20: no step changes or removes a row of the alerts, and a
\* check_risk_alerts call changes no trade, result or user and adds only
\* alert rows that are not acknowledged.
C20_AlertsAppendOnly ==
    [][/\ \A i \in DOMAIN alerts :
             i \in DOMAIN alerts' /\ alerts'[i] = alerts[i]
       /\ \A a \in RiskArgsDefault :
             check_risk_alerts(1, a)
             => /\ <<users, trades, results>>' = <<users, trades, results>>
                /\ \A i \in DOMAIN alerts' \ DOMAIN alerts :
                      alerts'[i].acknowledged = FALSE]_vars

\* A check_risk_alerts call has been made for a user who has a closed and
\* an open trade.
C20_Witness ==
    /\ resp.op = "check_risk_alerts"
    /\ \E t \in OwnTrades(resp.user_id) : trades[t].status = "CLOSED"
    /\ \E t \in OwnTrades(resp.user_id) : trades[t].status = "OPEN"

\* C21: the trade save_trade stores carries a risk:reward ratio exactly
\* when take-profit and stop-loss are both given and |entry - stop_loss| is
\* more than 0; the ratio is then |take_profit - entry| / |entry -
\* stop_loss| to two decimals, and it is absent otherwise.
C21_RatioIffTargetsGiven ==
    [][\A a \in ArgsRR :
         (save_trade(1, a) /\ ~LotSizeInvalid(a.lot_size))
         => trades'[Len(trades')].risk_reward_ratio
               = IF /\ a.take_profit # None
                    /\ a.stop_loss # None
                    /\ Abs(a.entry_price - a.stop_loss) > 0
                 THEN RoundDiv(Abs(a.take_profit - a.entry_price) * 100,
                               Abs(a.entry_price - a.stop_loss))
                 ELSE None]_vars

\* The CLOSED trades that have a Result, and their figures.
ClosedResulted ==
    {t \in DOMAIN trades : trades[t].status = "CLOSED" /\ ResultsOf(t) # {}}

TradeWon(t) == \E j \in ResultsOf(t) : results[j].result = "WIN"

TradePL(t) ==
    SumF([j \in ResultsOf(t) |-> results[j].profit_loss], ResultsOf(t))

GroupFigures(S) ==
    [total_trades |-> Cardinality(S),
     wins |-> Cardinality({t \in S : TradeWon(t)}),
     total_pl |-> SumF([t \in S |-> TradePL(t)], S)]

\* Entry e may stand before entry f: a higher win rate, or the same win
\* rate and a total profit/loss that is not lower.
EntryOrdered(e, f) ==
    \/ e.wins * f.total_trades > f.wins * e.total_trades
    \/ /\ e.wins * f.total_trades = f.wins * e.total_trades
       /\ e.total_pl >= f.total_pl

\* list holds the first Len(list) groups of the ranking of the groups
\* keyOf makes of the trades S: each listed once with its own figures, in
\* order, and no group left out ranks strictly before a listed one.
IsRanking(list, S, keyOf(_)) ==
    LET keys == {keyOf(t) : t \in S}
        figures(k) == GroupFigures({t \in S : keyOf(t) = k})
    IN  /\ \A i \in DOMAIN list :
              /\ list[i].key \in keys
              /\ list[i].total_trades = figures(list[i].key).total_trades
              /\ list[i].wins = figures(list[i].key).wins
              /\ list[i].total_pl = figures(list[i].key).total_pl
        /\ \A i, j \in DOMAIN list :
              i < j => /\ list[i].key # list[j].key
                       /\ EntryOrdered(list[i], list[j])
        /\ \A k \in keys \ {list[i].key : i \in DOMAIN list} :
              \A i \in DOMAIN list : EntryOrdered(list[i], figures(k))

TimeframeKey(t) == trades[t].timeframe
StrategyKey(t) == trades[t].strategy
CombinedKey(t) == <<trades[t].timeframe, trades[t].strategy>>

WithTimeframe == {t \in ClosedResulted : trades[t].timeframe # NoneStr}
WithStrategy == {t \in ClosedResulted : trades[t].strategy \notin {NoneStr, ""}}

\* C22: in a report of get_trade_insights the timeframe ranking and the
\* strategy ranking list every group of CLOSED trades with a Result once,
\* by win rate descending and then by total profit/loss descending; the
\* best timeframe and the best strategy are the first entries; the combined
\* ranking holds, in the same order, the first 5 groups or all of them if
\* there are fewer.
C22_RankingsOrdered ==
    (resp.op = "get_trade_insights" /\ resp.kind = "ok")
    => LET tp == resp.report.timeframe_performance
           sp == resp.report.strategy_performance
           bc == resp.report.best_combinations
           both == WithTimeframe \cap WithStrategy
           pairs == {CombinedKey(t) : t \in both}
       IN  /\ IsRanking(tp.all_timeframes, WithTimeframe, TimeframeKey)
           /\ Len(tp.all_timeframes)
                 = Cardinality({TimeframeKey(t) : t \in WithTimeframe})
           /\ tp.best_timeframe = IF tp.all_timeframes = <<>> THEN NoneStr
                                  ELSE tp.all_timeframes[1].key
           /\ IsRanking(sp.all_strategies, WithStrategy, StrategyKey)
           /\ Len(sp.all_strategies)
                 = Cardinality({StrategyKey(t) : t \in WithStrategy})
           /\ sp.best_strategy = IF sp.all_strategies = <<>> THEN NoneStr
                                 ELSE sp.all_strategies[1].key
           /\ IsRanking(bc, both, CombinedKey)
           /\ Len(bc) = IF Cardinality(pairs) > 5 THEN 5
                        ELSE Cardinality(pairs)

\* A report over six (timeframe, strategy) groups, of which the combined
\* ranking holds five, and whose timeframe ranking has two groups of equal
\* win rate in the order of their total profit/loss.
C22_Witness ==
    /\ resp.op = "get_trade_insights"
    /\ resp.kind = "ok"
    /\ Cardinality({CombinedKey(t) : t \in WithTimeframe \cap WithStrategy})
          = 6
    /\ Len(resp.report.best_combinations) = 5
    /\ LET l == resp.report.timeframe_performance.all_timeframes
       IN  \E i, j \in DOMAIN l :
              /\ i < j
              /\ l[i].wins * l[j].total_trades = l[j].wins * l[i].total_trades
              /\ l[i].total_pl > l[j].total_pl

\* The positions of the alerts of one type in a returned report.
AlertsOfType(payload, alert_type) ==
    {i \in DOMAIN payload.alerts :
        payload.alerts[i].alert_type = alert_type}

\* The user's OPEN trades, newest first.
OpenOrders(user_id) ==
    {q \in Perms({t \in OwnTrades(user_id) : trades[t].status = "OPEN"}) :
        \A i, k \in DOMAIN q :
           i < k => trades[q[i]].timestamp >= trades[q[k]].timestamp}

\* The trades rules 5, 8 and 9 look at: the 5 most recent closed trades and
\* then the 3 most recent open trades.
Candidates(rt, ot) ==
    [i \in 1..Len(Limit(rt, 5)) |-> rt[i][1]] \o Limit(ot, 3)

\* The balances present on the closed trades, newest first, and the
\* highest of them.
Balances(rt) ==
    SelectSeq([i \in DOMAIN rt |-> trades[rt[i][1]].balance],
              LAMBDA b : b # None /\ b # 0)

Peak(bs) ==
    CHOOSE m \in {bs[i] : i \in DOMAIN bs} : \A i \in DOMAIN bs : bs[i] <= m

\* C23: when the closed trades of the snapshot carry at least 2 balances
\* and (peak balance - most recent balance) / peak * 100 is at least
\* drawdown_threshold_percent, check_risk_alerts returns a report with a
\* DRAWDOWN alert, CRITICAL when the drawdown is over 20% and HIGH
\* otherwise.
C23_DrawdownAlert ==
    [][\A a \in RiskArgsDefault :
         (/\ check_risk_alerts(1, a)
          /\ \A rt \in RecentTrades(a.user_id, a.recent_trades_count) :
                LET bs == Balances(rt)
                IN  /\ Len(bs) >= 2
                    /\ (Peak(bs) - bs[1]) * 100
                          >= a.drawdown_threshold_percent * Peak(bs))
         => /\ resp'.kind = "ok"
            /\ \E rt \in RecentTrades(a.user_id, a.recent_trades_count) :
                  LET bs == Balances(rt)
                      found == AlertsOfType(resp', "DRAWDOWN")
                  IN  /\ Cardinality(found) = 1
                      /\ \A i \in found :
                            resp'.alerts[i].risk_level
                               = IF (Peak(bs) - bs[1]) * 100 > 20 * Peak(bs)
                                 THEN "CRITICAL" ELSE "HIGH"]_vars

\* C24: when at least 4 of the (up to) 5 most recent closed trades of the
\* snapshot have the result LOSS, check_risk_alerts returns a report with
\* an EMOTIONAL alert of level HIGH, also when the user has 4 closed trades
\* only.
C24_EmotionalAlert ==
    [][\A a \in RiskArgsDefault :
         (/\ check_risk_alerts(1, a)
          /\ \A rt \in RecentTrades(a.user_id, a.recent_trades_count) :
                Cardinality({i \in DOMAIN Limit(rt, 5) :
                                RowResult(rt[i]) = "LOSS"}) >= 4)
         => /\ resp'.kind = "ok"
            /\ LET found == AlertsOfType(resp', "EMOTIONAL")
               IN  /\ Cardinality(found) = 1
                   /\ \A i \in found :
                         resp'.alerts[i].risk_level = "HIGH"]_vars

\* C25: when some trade among the 5 most recent closed and the 3 most
\* recent open trades has no stop-loss, check_risk_alerts returns a report
\* with exactly one MISSING_STOP_LOSS alert, of level CRITICAL, that lists
\* the ids of all those trades and stands ahead of every HIGH and MEDIUM
\* alert.
C25_MissingStopLossAlert ==
    [][\A a \in RiskArgsDefault :
         (/\ check_risk_alerts(1, a)
          /\ \E t \in OwnTrades(a.user_id) : trades[t].stop_loss = None
          /\ \A rt \in RecentTrades(a.user_id, a.recent_trades_count),
                ot \in OpenOrders(a.user_id) :
                \E i \in DOMAIN Candidates(rt, ot) :
                   trades[Candidates(rt, ot)[i]].stop_loss = None)
         => /\ resp'.kind = "ok"
            /\ \E rt \in RecentTrades(a.user_id, a.recent_trades_count),
                  ot \in OpenOrders(a.user_id) :
                  LET found == AlertsOfType(resp', "MISSING_STOP_LOSS")
                  IN  /\ Cardinality(found) = 1
                      /\ \A i \in found :
                            /\ resp'.alerts[i].risk_level = "CRITICAL"
                            /\ resp'.alerts[i].details.trade_ids
                                  = SelectSeq(Candidates(rt, ot),
                                       LAMBDA t : trades[t].stop_loss = None)
                            /\ \A j \in DOMAIN resp'.alerts :
                                  resp'.alerts[j].risk_level
                                     \in {"HIGH", "MEDIUM"} => i < j]_vars

\* Trade t has stop-loss and balance set and its risk amount
\* |entry - stop| * lot_size * 100 is more than percent of its balance.
OverRisk(t, percent) ==
    /\ trades[t].stop_loss # None
    /\ trades[t].balance # None
    /\ trades[t].balance > 0
    /\ Abs(trades[t].entry_price - trades[t].stop_loss)
          * trades[t].lot_size * 100 > percent * trades[t].balance

\* C26: when some trade among the 5 most recent closed and then the 3 most
\* recent open trades, in that order, has stop-loss and balance set and a
\* risk amount over max_risk_per_trade_percent of its balance,
\* check_risk_alerts returns a report with exactly one HIGH_RISK_PER_TRADE
\* alert, about the first such trade, CRITICAL when its risk is over 5% of
\* the balance and HIGH otherwise.
C26_HighRiskPerTradeAlert ==
    [][\A a \in RiskArgsDefault :
         (/\ check_risk_alerts(1, a)
          /\ \A rt \in RecentTrades(a.user_id, a.recent_trades_count),
                ot \in OpenOrders(a.user_id) :
                \E i \in DOMAIN Candidates(rt, ot) :
                   OverRisk(Candidates(rt, ot)[i],
                            a.max_risk_per_trade_percent))
         => /\ resp'.kind = "ok"
            /\ \E rt \in RecentTrades(a.user_id, a.recent_trades_count),
                  ot \in OpenOrders(a.user_id) :
                  LET over == SelectSeq(Candidates(rt, ot),
                                 LAMBDA t : OverRisk(t,
                                    a.max_risk_per_trade_percent))
                      found == AlertsOfType(resp', "HIGH_RISK_PER_TRADE")
                  IN  /\ Cardinality(found) = 1
                      /\ \A i \in found :
                            /\ resp'.alerts[i].details.trade_id = over[1]
                            /\ resp'.alerts[i].risk_level
                                  = IF OverRisk(over[1], 5)
                                    THEN "CRITICAL" ELSE "HIGH"]_vars

\* C27: in every reachable state each stored Result references an existing
\* trade and the Result's user is the owner of that trade; and in every
\* step, a Result is added only by a log_trade_result call whose user_id
\* owns the trade it is for, and a trade goes from OPEN to CLOSED only by
\* a log_trade_result call whose user_id owns it.  So no sequence of calls
\* by one user creates a Result for, or closes, a trade of another user.
C27_ResultsWithinOwner ==
    /\ [](\A j \in DOMAIN results :
            /\ results[j].trade_id \in DOMAIN trades
            /\ results[j].user_id = trades[results[j].trade_id].user_id)
    /\ [][/\ \A j \in DOMAIN results' :
               j \notin DOMAIN results
               => \E p \in Procs :
                     /\ log_trade_result_insert(p)
                     /\ results'[j].user_id = calls[p].user_id
                     /\ results'[j].trade_id \in DOMAIN trades
                     /\ trades[results'[j].trade_id].user_id
                           = calls[p].user_id
          /\ \A t \in DOMAIN trades :
               (trades[t].status = "OPEN" /\ trades'[t].status = "CLOSED")
               => \E p \in Procs :
                     /\ log_trade_result_update(p)
                     /\ calls[p].trade_id = t
                     /\ calls[p].user_id = trades[t].user_id]_vars

\* A user has closed a trade of their own, and their call on a trade of
\* another user was answered not-found, leaving that trade open and
\* without a Result.
C27_Witness ==
    /\ resp.op = "log_trade_result"
    /\ resp.kind = "not_found"
    /\ resp.trade_id \in DOMAIN trades
    /\ trades[resp.trade_id].user_id # resp.user_id
    /\ trades[resp.trade_id].status = "OPEN"
    /\ \E j \in DOMAIN results :
          /\ results[j].user_id = resp.user_id
          /\ trades[results[j].trade_id].user_id = resp.user_id
          /\ trades[results[j].trade_id].status = "CLOSED"

====
